---------------------------- MODULE Spec2Model ----------------------------
(***************************************************************************)
(* Quiz session lifecycle of the adaptive-learner application: the Quiz    *)
(* page (question generation, answering, submission), the generate-quiz    *)
(* edge function, the quiz_attempts / quiz_questions tables with their     *)
(* row-level-security policies, and the Performance page (history,         *)
(* clearHistory).                                                          *)
(***************************************************************************)
EXTENDS Integers, Sequences, FiniteSets, TLC

(***************************************************************************)
(* Bounds of the model.                                                    *)
(***************************************************************************)
MaxQuestions == 2   \* longest question list the oracle returns
MaxSessions  == 2   \* quiz sessions started (handleStartQuiz / direct open)
MaxRuns      == 2   \* invocations of handleSubmit over the whole run
MaxWork      == 3   \* sessions started plus handleSubmit invocations
MaxLabel     == 2   \* how many of the option labels the user picks from
MaxCorrect   == 1   \* how many of them the oracle marks as correct answers
MaxAttempts  == 2   \* longest attempt list handed to calculateStats

(***************************************************************************)
(* Values.                                                                 *)
(***************************************************************************)
OptionLabels == <<"A", "B", "C", "D">>
Labels       == {OptionLabels[k] : k \in 1..MaxLabel}
Absent       == "undefined"      \* JavaScript undefined / SQL NULL
NoUser       == "anon"           \* no authenticated session
Users        == {"u1", "u2"}
NoAttempt    == 0                \* attemptId state "" (useState<string>(""))
NoState      == [attemptId |-> NoAttempt, score |-> 0, total |-> 0]

skillLevels    == {"Beginner"}
subjects       == {"Mathematics"}
questionCounts == {5}

CorrectLabels == {OptionLabels[k] : k \in 1..MaxCorrect}

QuestionLists ==
    UNION {[1..n -> [correct_answer : CorrectLabels]] : n \in 0..MaxQuestions}

MsgNon2xx      == "Edge Function returned a non-2xx status code"
MsgInsertFail  == "attempt insert failed"
MsgSaveScore   == "Failed to save score. Please try again."
MsgCleared     == "Performance history cleared successfully"
MsgClearFail   == "Failed to clear history"
MsgNotLoggedIn == "You must be logged in to clear history"
MsgLoggedOut   == "Logged out successfully"
MsgSelectSkill == "Please select a skill level"
MsgSelectSubj  == "Please select at least one subject"
MsgSelectCount == "Please select number of questions"

VARIABLES
    auth,             \* supabase auth session: a user of Users, or NoUser
    page,             \* current route
    selectedSkill, selectedSubjects, selectedCount,   \* Dashboard state
    locState,         \* location.state handed to the Quiz page
    questions, loading, currentQuestion, answers, attemptId,  \* Quiz state
    genPc,            \* position of the Quiz effect / generateQuiz
    genUser,          \* session.session.user.id read in generateQuiz
    runs,             \* handleSubmit invocations, each with its closure
    resultsState,     \* location.state handed to the Results page
    toast,            \* message the latest step showed with toast.*, or ""
    quiz_attempts,    \* table public.quiz_attempts, in creation order
    quiz_questions,   \* table public.quiz_questions, in creation order
    nextId,           \* next fresh attempt id (gen_random_uuid)
    attempts, perfPc, \* Performance state: attempts listed, page position
    stats,            \* what the Performance page shows: calculateStats()
    sessions          \* number of quiz sessions started so far

dash  == <<selectedSkill, selectedSubjects, selectedCount>>
quiz  == <<questions, loading, currentQuestion, answers, attemptId, genPc, genUser>>
store == <<quiz_attempts, quiz_questions, nextId>>
vars  == <<auth, page, dash, locState, quiz, runs, resultsState, toast, store,
           attempts, perfPc, stats, sessions>>

NoParams == [skillLevel |-> "", subjects |-> <<>>, questionCount |-> 0]
NoAnswers == [i \in {} |-> Absent]

\* what Math.round returns: an integer, or NaN
Integer(n) == [nan |-> FALSE, n |-> n]
NaN == [nan |-> TRUE, n |-> 0]
NoStats == [total |-> 0, avgScore |-> Integer(0), bestScore |-> Integer(0)]

----------------------------------------------------------------------------
(***************************************************************************)
(* Helpers on sequences.                                                   *)
(***************************************************************************)
Reverse(s) == [k \in 1..Len(s) |-> s[Len(s) + 1 - k]]

Maximum(S) == CHOOSE x \in S : \A y \in S : y <= x

----------------------------------------------------------------------------
(***************************************************************************)
(* The store: tables quiz_attempts and quiz_questions under row level      *)
(* security.  uid is auth.uid() of the caller (NoUser: NULL).  A command   *)
(* with no policy on a table sees no row (default deny): an UPDATE or      *)
(* DELETE then changes nothing and returns no error.                       *)
(***************************************************************************)
AttemptPolicies  == {"SELECT", "INSERT"}
QuestionPolicies == {"SELECT", "INSERT", "UPDATE"}
DefaultScore     == 0

OwnsAttempt(uid, id, atts) ==
    \E k \in 1..Len(atts) : atts[k].id = id /\ atts[k].user_id = uid

\* INSERT INTO quiz_attempts: WITH CHECK (auth.uid() = user_id), and user_id
\* references a profile.
InsertAttemptAllowed(uid, user_id) ==
    "INSERT" \in AttemptPolicies /\ user_id \in Users /\ uid = user_id

NewAttempt(id, user_id, total) ==
    [id |-> id, user_id |-> user_id, score |-> DefaultScore,
     total_questions |-> total]

\* an INSERT policy that does not look at who owns the attempt
InsertQuestionUnchecked(uid, attempt_id, atts) ==
    /\ attempt_id # NoAttempt
    /\ \E k \in 1..Len(atts) : atts[k].id = attempt_id

\* INSERT INTO quiz_questions: attempt_id is a uuid referencing an attempt
\* the caller owns.
InsertQuestionAllowed(uid, attempt_id, atts) ==
    /\ attempt_id # NoAttempt
    /\ "INSERT" \in QuestionPolicies
    /\ OwnsAttempt(uid, attempt_id, atts)

NewQuestion(attempt_id, correctAnswer, userAnswer) ==
    [attempt_id |-> attempt_id, correct_answer |-> correctAnswer,
     user_answer |-> userAnswer]

\* UPDATE quiz_attempts SET score = .. WHERE id = ..: "" is no uuid (error);
\* otherwise the rows the caller may update.
UpdateScoreError(id) == id = NoAttempt

\* an UPDATE with neither the id filter nor row level security
UpdateScoreUnscoped(uid, atts, id, score) ==
    [k \in 1..Len(atts) |-> [atts[k] EXCEPT !.score = score]]

UpdateScore(uid, atts, id, score) ==
    [k \in 1..Len(atts) |->
        IF atts[k].id = id /\ "UPDATE" \in AttemptPolicies /\ atts[k].user_id = uid
        THEN [atts[k] EXCEPT !.score = score]
        ELSE atts[k]]

\* DELETE FROM quiz_attempts WHERE user_id = ..
DeleteAttempts(uid, atts, user_id) ==
    SelectSeq(atts, LAMBDA a :
        ~("DELETE" \in AttemptPolicies /\ a.user_id = uid /\ a.user_id = user_id))

\* quiz_questions.attempt_id ... ON DELETE CASCADE
CascadeQuestions(qs, atts) ==
    SelectSeq(qs, LAMBDA q : \E k \in 1..Len(atts) : atts[k].id = q.attempt_id)

\* list-attempts: SELECT * FROM quiz_attempts ORDER BY created_at DESC
SelectAttempts(uid, atts) ==
    Reverse(SelectSeq(atts, LAMBDA a :
        "SELECT" \in AttemptPolicies /\ a.user_id = uid))

\* list-questions: SELECT * FROM quiz_questions WHERE attempt_id = ..
\* ORDER BY created_at
SelectQuestions(uid, qs, atts, attempt_id) ==
    SelectSeq(qs, LAMBDA q :
        /\ q.attempt_id = attempt_id
        /\ "SELECT" \in QuestionPolicies
        /\ OwnsAttempt(uid, q.attempt_id, atts))

----------------------------------------------------------------------------
(***************************************************************************)
(* The generate-quiz edge function and supabase.functions.invoke.          *)
(***************************************************************************)
Unparseable == "unparseable"   \* content JSON.parse rejects
JsonNull    == "null"          \* content that parses to null

OracleResponses ==
    [status : {200, 429, 402, 500}, kind : {"array", JsonNull, Unparseable},
     questions : QuestionLists]

Failure(status, msg) ==
    [status |-> status, error |-> msg, hasQuestions |-> FALSE, questions |-> <<>>]

serve(keyConfigured, resp) ==
    IF ~keyConfigured THEN Failure(500, "LOVABLE_API_KEY is not configured")
    ELSE IF resp.status # 200 THEN
        IF resp.status = 429
        THEN Failure(429, "Rate limit exceeded. Please try again later.")
        ELSE IF resp.status = 402
        THEN Failure(402, "Payment required. Please add credits to your workspace.")
        ELSE Failure(500, "AI Gateway error")
    ELSE IF resp.kind = Unparseable THEN Failure(500, "JSON.parse")
    ELSE [status |-> 200, error |-> "",
          hasQuestions |-> resp.kind = "array",
          questions |-> IF resp.kind = "array" THEN resp.questions ELSE <<>>]

\* supabase.functions.invoke: a non-2xx answer becomes error, data null
invoke(r) ==
    IF r.status = 200
    THEN [error |-> "", hasQuestions |-> r.hasQuestions, questions |-> r.questions]
    ELSE [error |-> MsgNon2xx, hasQuestions |-> FALSE, questions |-> <<>>]

----------------------------------------------------------------------------
(***************************************************************************)
(* Initial state: nobody signed in, the application on its sign-in page.   *)
(***************************************************************************)
Init ==
    /\ auth = NoUser
    /\ page = "auth"
    /\ selectedSkill = ""
    /\ selectedSubjects = <<>>
    /\ selectedCount = 0
    /\ locState = NoParams
    /\ questions = <<>>
    /\ loading = TRUE
    /\ currentQuestion = 0
    /\ answers = NoAnswers
    /\ attemptId = NoAttempt
    /\ genPc = "idle"
    /\ genUser = NoUser
    /\ runs = <<>>
    /\ resultsState = NoState
    /\ toast = ""
    /\ quiz_attempts = <<>>
    /\ quiz_questions = <<>>
    /\ nextId = 1
    /\ attempts = <<>>
    /\ perfPc = "idle"
    /\ stats = NoStats
    /\ sessions = 0

(***************************************************************************)
(* Routing.  A page's component state (useState) starts afresh when the    *)
(* page mounts and is gone when it unmounts.                               *)
(***************************************************************************)
\* Quiz component state as useState initialises it
QuizUnmounted(pc) ==
    /\ questions' = <<>>
    /\ loading' = TRUE
    /\ currentQuestion' = 0
    /\ answers' = NoAnswers
    /\ attemptId' = NoAttempt
    /\ genUser' = NoUser
    /\ genPc' = pc

GenAwaiting == genPc \in {"invoke", "session", "insert"}
GenInFlight == genPc = "mount" \/ GenAwaiting

\* leaving the Quiz page discards its component, but a generateQuiz still
\* awaiting a call runs on
LeaveQuiz ==
    IF page = "quiz" /\ ~GenAwaiting THEN QuizUnmounted("idle") ELSE UNCHANGED quiz

\* navigate(to, { state }) as far as Dashboard, Performance and Results go
Navigate(to, state) ==
    /\ page' = to
    /\ selectedSkill' = ""
    /\ selectedSubjects' = <<>>
    /\ selectedCount' = 0
    /\ attempts' = <<>>
    /\ perfPc' = IF to = "performance" THEN "mount" ELSE "idle"
    /\ stats' = NoStats
    /\ resultsState' = state

Stay == UNCHANGED <<page, dash, attempts, perfPc, stats, resultsState>>

----------------------------------------------------------------------------
(***************************************************************************)
(* Authentication (external collaborator) and the Navigation bar.          *)
(***************************************************************************)
\* users are interchangeable until a quiz session has started: the first
\* one to matter is called u1
SignIn(u) ==
    /\ page = "auth"
    /\ u = "u1" \/ sessions > 0
    /\ auth' = u
    /\ Navigate("dashboard", NoState)
    /\ toast' = ""
    /\ UNCHANGED <<locState, quiz, runs, store, sessions>>

\* the ambient session ends (expiry, sign-out in another tab)
SessionLost ==
    /\ auth \in Users
    /\ page # "auth"
    /\ auth' = NoUser
    /\ Stay
    /\ toast' = ""
    /\ UNCHANGED <<locState, quiz, runs, store, sessions>>

\* Dashboard effect: no session -> navigate("/auth")
DashboardEffect ==
    /\ page = "dashboard"
    /\ auth = NoUser
    /\ Navigate("auth", NoState)
    /\ toast' = ""
    /\ UNCHANGED <<auth, locState, quiz, runs, store, sessions>>

\* the Navigation bar is rendered by every page but not by the Quiz page
\* while it is loading or has no question
NavigationShown ==
    IF page = "quiz"
    THEN ~loading /\ Len(questions) > 0
    ELSE page \in {"dashboard", "results", "performance"}

\* <Link to="/dashboard">
NavHome ==
    /\ NavigationShown
    /\ page # "dashboard"
    /\ Navigate("dashboard", NoState)
    /\ LeaveQuiz
    /\ toast' = ""
    /\ UNCHANGED <<auth, locState, runs, store, sessions>>

\* <Link to="/performance">: the Performance page mounts
NavPerformance ==
    /\ NavigationShown
    /\ page # "performance"
    /\ Navigate("performance", NoState)
    /\ LeaveQuiz
    /\ toast' = ""
    /\ UNCHANGED <<auth, locState, runs, store, sessions>>

handleLogout(signOutError) ==
    /\ NavigationShown
    /\ IF signOutError
       THEN /\ toast' = "Error logging out"
            /\ Stay
            /\ UNCHANGED <<auth, quiz>>
       ELSE /\ toast' = MsgLoggedOut
            /\ auth' = NoUser
            /\ Navigate("auth", NoState)
            /\ LeaveQuiz
    /\ UNCHANGED <<locState, runs, store, sessions>>

----------------------------------------------------------------------------
(***************************************************************************)
(* Dashboard: the selection step.                                          *)
(***************************************************************************)
setSelectedSkill(level) ==
    /\ page = "dashboard"
    /\ selectedSkill' = level
    /\ toast' = ""
    /\ UNCHANGED <<auth, page, selectedSubjects, selectedCount, locState, quiz,
                   runs, resultsState, store, attempts, perfPc, stats, sessions>>

Includes(s, x) == \E k \in 1..Len(s) : s[k] = x

handleSubjectToggle(subject) ==
    /\ page = "dashboard"
    /\ selectedSubjects' =
          IF Includes(selectedSubjects, subject)
          THEN SelectSeq(selectedSubjects, LAMBDA x : x # subject)
          ELSE Append(selectedSubjects, subject)
    /\ toast' = ""
    /\ UNCHANGED <<auth, page, selectedSkill, selectedCount, locState, quiz,
                   runs, resultsState, store, attempts, perfPc, stats, sessions>>

setSelectedCount(count) ==
    /\ page = "dashboard"
    /\ selectedCount' = count
    /\ toast' = ""
    /\ UNCHANGED <<auth, page, selectedSkill, selectedSubjects, locState, quiz,
                   runs, resultsState, store, attempts, perfPc, stats, sessions>>

\* the Quiz page mounts with the given location.state
QuizMounted(state) ==
    /\ sessions < MaxSessions
    /\ sessions + Len(runs) < MaxWork
    /\ ~GenInFlight
    /\ Navigate("quiz", NoState)
    /\ locState' = state
    /\ QuizUnmounted("mount")
    /\ sessions' = sessions + 1

handleStartQuiz ==
    /\ page = "dashboard"
    /\ IF selectedSkill = ""
       THEN /\ toast' = MsgSelectSkill
            /\ Stay
            /\ UNCHANGED <<locState, quiz, sessions>>
       ELSE IF Len(selectedSubjects) = 0
       THEN /\ toast' = MsgSelectSubj
            /\ Stay
            /\ UNCHANGED <<locState, quiz, sessions>>
       ELSE IF selectedCount = 0
       THEN /\ toast' = MsgSelectCount
            /\ Stay
            /\ UNCHANGED <<locState, quiz, sessions>>
       ELSE /\ QuizMounted([skillLevel |-> selectedSkill,
                            subjects |-> selectedSubjects,
                            questionCount |-> selectedCount])
            /\ toast' = ""
    /\ UNCHANGED <<auth, runs, store>>

\* the /quiz route opened without location.state (location.state || {})
OpenQuizDirect ==
    /\ page \in {"dashboard", "results", "performance"}
    /\ QuizMounted(NoParams)
    /\ toast' = ""
    /\ UNCHANGED <<auth, runs, store>>

----------------------------------------------------------------------------
(***************************************************************************)
(* Quiz page: the effect run on mount and generateQuiz, one action per     *)
(* await.                                                                  *)
(***************************************************************************)
\* an effect with no check of location.state
ParamsMissingNever(state) == FALSE

\* !skillLevel || !subjects || !questionCount  (subjects <<>> stands for an
\* undefined subjects: handleStartQuiz never passes an empty list)
ParamsMissing(state) ==
    state.skillLevel = "" \/ state.subjects = <<>> \/ state.questionCount = 0

QuizEffect ==
    /\ page = "quiz"
    /\ genPc = "mount"
    /\ IF ParamsMissing(locState)
       THEN /\ Navigate("dashboard", NoState)
            /\ QuizUnmounted("idle")
       ELSE /\ genPc' = "invoke"
            /\ loading' = TRUE
            /\ Stay
            /\ UNCHANGED <<questions, currentQuestion, answers, attemptId, genUser>>
    /\ toast' = ""
    /\ UNCHANGED <<auth, locState, runs, store, sessions>>

\* catch: toast.error(error.message || ..); navigate("/dashboard"); finally
GenCatch(message) ==
    /\ toast' = message
    /\ Navigate("dashboard", NoState)
    /\ QuizUnmounted("failed")

\* finally { setLoading(false) } with no error thrown: the component shows
\* its state, unless it was unmounted meanwhile
GenFinished(qs, id) ==
    /\ toast' = ""
    /\ Stay
    /\ IF page = "quiz"
       THEN /\ questions' = qs
            /\ attemptId' = id
            /\ loading' = FALSE
            /\ genPc' = "ready"
            /\ UNCHANGED <<currentQuestion, answers, genUser>>
       ELSE QuizUnmounted("idle")

\* the error of the invoke result is never looked at
InvokeFailedIgnored(r) == FALSE

\* if (error) throw error
InvokeFailed(r) == r.error # ""

\* await supabase.functions.invoke("generate-quiz", ..) returns
InvokeReturns(keyConfigured, resp) ==
    /\ genPc = "invoke"
    /\ LET r == invoke(serve(keyConfigured, resp)) IN
       IF InvokeFailed(r)
       THEN GenCatch(r.error)
       ELSE IF r.hasQuestions
       THEN /\ questions' = r.questions
            /\ genPc' = "session"
            /\ toast' = ""
            /\ Stay
            /\ UNCHANGED <<loading, currentQuestion, answers, attemptId, genUser>>
       ELSE GenFinished(questions, attemptId)
    /\ UNCHANGED <<auth, locState, runs, store, sessions>>

\* await supabase.auth.getSession() returns; if (session?.session?.user)
GetSessionReturns ==
    /\ genPc = "session"
    /\ IF auth \in Users
       THEN /\ genUser' = auth
            /\ genPc' = "insert"
            /\ toast' = ""
            /\ Stay
            /\ UNCHANGED <<questions, loading, currentQuestion, answers, attemptId>>
       ELSE GenFinished(questions, attemptId)
    /\ UNCHANGED <<auth, locState, runs, store, sessions>>

\* await supabase.from("quiz_attempts").insert(..).select().single() returns
InsertAttemptReturns(storeError) ==
    /\ genPc = "insert"
    /\ IF storeError \/ ~InsertAttemptAllowed(auth, genUser)
       THEN /\ GenCatch(MsgInsertFail)
            /\ UNCHANGED store
       ELSE /\ quiz_attempts' =
                Append(quiz_attempts, NewAttempt(nextId, genUser, Len(questions)))
            /\ nextId' = nextId + 1
            /\ GenFinished(questions, nextId)
            /\ UNCHANGED quiz_questions
    /\ UNCHANGED <<auth, locState, runs, sessions>>

\* the Quiz page renders nothing (return null) when it has no question: no
\* link is shown, and the browser's back button leads to the dashboard the
\* quiz was started from
HistoryBack ==
    /\ page = "quiz"
    /\ ~loading
    /\ Len(questions) = 0
    /\ Navigate("dashboard", NoState)
    /\ LeaveQuiz
    /\ toast' = ""
    /\ UNCHANGED <<auth, locState, runs, store, sessions>>

----------------------------------------------------------------------------
(***************************************************************************)
(* Quiz page: answering and moving, while the questions are shown.         *)
(***************************************************************************)
QuizShown == page = "quiz" /\ ~loading /\ Len(questions) > 0

\* answers[i], undefined when i was never answered
AnswerAt(ans, i) == IF i \in DOMAIN ans THEN ans[i] ELSE Absent

\* { [currentQuestion]: value }: the spread of the earlier answers left out
SetAnswerAlone(ans, i, value) == [j \in {i} |-> value]

\* { ...answers, [currentQuestion]: value }
SetAnswer(ans, i, value) ==
    [j \in DOMAIN ans \cup {i} |-> IF j = i THEN value ELSE ans[j]]

\* an answer written to quiz_questions as soon as it is given
handleAnswerPersisting(value) ==
    /\ QuizShown
    /\ answers' = SetAnswer(answers, currentQuestion, value)
    /\ quiz_questions' =
          Append(quiz_questions,
                 NewQuestion(attemptId, questions[currentQuestion + 1].correct_answer,
                             value))
    /\ toast' = ""
    /\ Stay
    /\ UNCHANGED <<auth, locState, questions, loading, currentQuestion,
                   attemptId, genPc, genUser, runs, quiz_attempts, nextId, sessions>>

handleAnswer(value) ==
    /\ QuizShown
    /\ answers' = SetAnswer(answers, currentQuestion, value)
    /\ toast' = ""
    /\ Stay
    /\ UNCHANGED <<auth, locState, questions, loading, currentQuestion,
                   attemptId, genPc, genUser, runs, store, sessions>>

\* Next without the check against the last index
NextCursorUnclamped(cur, n) == cur + 1

NextCursor(cur, n) == IF cur < n - 1 THEN cur + 1 ELSE cur
PreviousCursor(cur) == IF cur > 0 THEN cur - 1 ELSE cur

\* the Next button is rendered on every question but the last
handleNext ==
    /\ QuizShown
    /\ currentQuestion # Len(questions) - 1
    /\ currentQuestion' = NextCursor(currentQuestion, Len(questions))
    /\ toast' = ""
    /\ Stay
    /\ UNCHANGED <<auth, locState, questions, loading, answers, attemptId,
                   genPc, genUser, runs, store, sessions>>

\* the Previous button is disabled on question 0
handlePrevious ==
    /\ QuizShown
    /\ currentQuestion # 0
    /\ currentQuestion' = PreviousCursor(currentQuestion)
    /\ toast' = ""
    /\ Stay
    /\ UNCHANGED <<auth, locState, questions, loading, answers, attemptId,
                   genPc, genUser, runs, store, sessions>>

----------------------------------------------------------------------------
(***************************************************************************)
(* Quiz page: handleSubmit.  Each click starts a run that holds the state  *)
(* its closure captured; a run advances at each await.                     *)
(***************************************************************************)
NewRun ==
    [sess |-> sessions, attemptId |-> attemptId, questions |-> questions,
     total |-> Len(questions), answers |-> answers, i |-> 0, score |-> 0,
     pc |-> "loop", issued |-> <<>>, sawError |-> FALSE]

\* a Submit button rendered on every question
handleSubmitAnywhere ==
    /\ QuizShown
    /\ Len(runs) < MaxRuns
    /\ sessions + Len(runs) < MaxWork
    /\ runs' = Append(runs, NewRun)
    /\ toast' = ""
    /\ Stay
    /\ UNCHANGED <<auth, locState, quiz, store, sessions>>

\* the Submit button is rendered on the last question only, never disabled
handleSubmit ==
    /\ QuizShown
    /\ currentQuestion = Len(questions) - 1
    /\ Len(runs) < MaxRuns
    /\ sessions + Len(runs) < MaxWork
    /\ runs' = Append(runs, NewRun)
    /\ toast' = ""
    /\ Stay
    /\ UNCHANGED <<auth, locState, quiz, store, sessions>>

\* every answered question counts, right or wrong
ScoreStepAnswered(score, userAnswer, correctAnswer) ==
    IF userAnswer # Absent THEN score + 1 ELSE score

\* if (userAnswer === correctAnswer) score++
ScoreStep(score, userAnswer, correctAnswer) ==
    IF userAnswer = correctAnswer THEN score + 1 ELSE score

\* the loop stops one question early
LoopContinuesShort(run) == run.i < Len(run.questions) - 1

\* the loop goes on while i < questions.length
LoopContinues(run) == run.i < Len(run.questions)

\* the store operation a run issues next
NextOp(run) ==
    IF LoopContinues(run)
    THEN [op |-> "insert", index |-> run.i]
    ELSE [op |-> "update", index |-> run.i]

\* loop body i: the score step, then await ..from("quiz_questions").insert(..)
\* returns; its result is not looked at
SubmitInsert(r, storeError) ==
    /\ r \in 1..Len(runs)
    /\ runs[r].pc = "loop"
    /\ LoopContinues(runs[r])
    /\ LET run == runs[r]
           userAnswer == AnswerAt(run.answers, run.i)
           correctAnswer == run.questions[run.i + 1].correct_answer
           ok == ~storeError /\ InsertQuestionAllowed(auth, run.attemptId, quiz_attempts)
       IN  /\ runs' = [runs EXCEPT ![r] =
                [run EXCEPT !.score = ScoreStep(run.score, userAnswer, correctAnswer),
                            !.i = run.i + 1,
                            !.issued = Append(run.issued, NextOp(run)),
                            !.sawError = run.sawError \/ ~ok]]
           /\ quiz_questions' =
                IF ok
                THEN Append(quiz_questions,
                            NewQuestion(run.attemptId, correctAnswer, userAnswer))
                ELSE quiz_questions
    /\ toast' = ""
    /\ Stay
    /\ UNCHANGED <<auth, locState, quiz, quiz_attempts, nextId, sessions>>

\* handleSubmit has returned: the locals and the closure of the invocation
\* are gone; what it issued and how it ended stay on record
Returned(run) ==
    [run EXCEPT !.questions = <<>>, !.answers = NoAnswers, !.i = 0, !.score = 0]

\* after the loop: await ..from("quiz_attempts").update({ score }).eq("id", ..)
\* returns; on updateError toast and return, else navigate("/results", ..)
SubmitUpdate(r, storeError) ==
    /\ r \in 1..Len(runs)
    /\ runs[r].pc = "loop"
    /\ ~LoopContinues(runs[r])
    /\ LET run == runs[r]
           updateError == storeError \/ UpdateScoreError(run.attemptId)
       IN  IF updateError
           THEN /\ runs' = [runs EXCEPT ![r] =
                     Returned([run EXCEPT !.pc = "failed", !.sawError = TRUE,
                                          !.issued = Append(run.issued, NextOp(run))])]
                /\ toast' = MsgSaveScore
                /\ Stay
                /\ UNCHANGED <<quiz, store>>
           ELSE /\ runs' = [runs EXCEPT ![r] =
                     Returned([run EXCEPT !.pc = "done",
                                          !.issued = Append(run.issued, NextOp(run))])]
                /\ quiz_attempts' =
                     UpdateScore(auth, quiz_attempts, run.attemptId, run.score)
                /\ Navigate("results", [attemptId |-> run.attemptId,
                                        score |-> run.score,
                                        total |-> run.total])
                /\ LeaveQuiz
                /\ toast' = ""
                /\ UNCHANGED <<quiz_questions, nextId>>
    /\ UNCHANGED <<auth, locState, sessions>>

----------------------------------------------------------------------------
(***************************************************************************)
(* JavaScript numbers: IEEE 754 binary64.  A positive double is the pair   *)
(* of its significand m (53 bits, least significant first) and the         *)
(* exponent e of its last bit: its value is m * 2^e.  Every operation      *)
(* rounds its exact result to nearest, ties to even.                       *)
(***************************************************************************)
SignificandBits == 53
Zero == [nan |-> FALSE, m |-> <<>>, e |-> 0]
DoubleNaN == [nan |-> TRUE, m |-> <<>>, e |-> 0]

\* the least e with a * 2^e >= b, for a > 0
RECURSIVE Exponent(_, _, _)
Exponent(a, b, e) == IF a <= 0 \/ a >= b THEN e ELSE Exponent(2 * a, b, e + 1)

\* the n binary digits of q < 2^n, most significant first
Digits(q, n) == [i \in 1..n |-> (q \div (2 ^ (n - i))) % 2]

\* the next 8 * n binary digits of r / b (r < b), most significant first,
\* and the remainder left
RECURSIVE Divide(_, _, _)
Divide(r, b, n) ==
    IF n = 0 THEN [bits |-> <<>>, r |-> r]
    ELSE LET rest == Divide((256 * r) % b, b, n - 1)
         IN  [bits |-> Digits((256 * r) \div b, 8) \o rest.bits, r |-> rest.r]

\* bits + 1
Increment(bits) ==
    IF \A k \in 1..Len(bits) : bits[k] = 1
    THEN [k \in 1..(Len(bits) + 1) |-> IF k = Len(bits) + 1 THEN 1 ELSE 0]
    ELSE LET z == CHOOSE k \in 1..Len(bits) :
                      bits[k] = 0 /\ \A j \in 1..(k - 1) : bits[j] = 1
         IN  [k \in 1..Len(bits) |->
                 IF k < z THEN 0 ELSE IF k = z THEN 1 ELSE bits[k]]

\* an exact result m * 2^e (plus a non-zero part below its last bit when
\* sticky) rounded to 53 bits
RoundToDouble(m, e, sticky) ==
    LET d == Len(m) - SignificandBits IN
    IF d < 0 THEN [nan |-> FALSE, m |-> m, e |-> e]
    ELSE LET kept == SubSeq(m, d + 1, Len(m))
             guard == IF d = 0 THEN 0 ELSE m[d]
             low == sticky \/ \E k \in 1..(d - 1) : m[k] = 1
             up == guard = 1 /\ (low \/ kept[1] = 1)
             r == IF up THEN Increment(kept) ELSE kept
         IN  IF Len(r) > SignificandBits
             THEN [nan |-> FALSE, m |-> Tail(r), e |-> e + d + 1]
             ELSE [nan |-> FALSE, m |-> r, e |-> e + d]

\* a / b for integers 0 <= a <= b; 0 / 0 is NaN.  The quotient is worked
\* out to 57 digits, enough to round it to 53.
DoubleDivide(a, b) ==
    IF b = 0 THEN DoubleNaN
    ELSE IF a = 0 THEN Zero
    ELSE LET e == Exponent(a, b, 0)
             q == Divide(a * (2 ^ e) - b, b, 7)
         IN  RoundToDouble(Reverse(<<1>> \o q.bits), 0 - (e + Len(q.bits)),
                           q.r # 0)

RECURSIVE BitsValue(_)
BitsValue(m) == IF m = <<>> THEN 0 ELSE Head(m) + 2 * BitsValue(Tail(m))

\* m in base 256, least significant digit first, and back
Limbs(m) ==
    [j \in 1..((Len(m) + 7) \div 8) |->
        BitsValue(SubSeq(m, 8 * j - 7, IF 8 * j < Len(m) THEN 8 * j ELSE Len(m)))]

Bits(ls) ==
    LET all == [k \in 1..(8 * Len(ls)) |->
                   (ls[((k - 1) \div 8) + 1] \div (2 ^ ((k - 1) % 8))) % 2]
    IN  SubSeq(all, 1, Maximum({0} \cup {k \in 1..Len(all) : all[k] = 1}))

\* the base-256 digits of c * ls + carry, for a small integer c
RECURSIVE TimesLimbs(_, _, _)
TimesLimbs(ls, c, carry) ==
    IF ls = <<>>
    THEN IF carry = 0 THEN <<>>
         ELSE <<carry % 256>> \o TimesLimbs(<<>>, c, carry \div 256)
    ELSE LET s == c * Head(ls) + carry
         IN  <<s % 256>> \o TimesLimbs(Tail(ls), c, s \div 256)

\* x * c for a double x and a small integer c
DoubleTimes(x, c) ==
    IF x.nan THEN DoubleNaN
    ELSE IF x = Zero THEN Zero
    ELSE RoundToDouble(Bits(TimesLimbs(Limbs(x.m), c, 0)), x.e, FALSE)

\* Math.round(x) for 0 <= x < 2^31: the integer nearest to x, a tie going up
MathRound(x) ==
    IF x.nan THEN NaN
    ELSE IF x = Zero THEN Integer(0)
    ELSE LET f == 0 - x.e    \* binary digits of m behind the point
         IN  IF f <= 0 THEN Integer(BitsValue(x.m) * (2 ^ (0 - f)))
             ELSE IF f > Len(x.m) THEN Integer(0)
             ELSE Integer(BitsValue(SubSeq(x.m, f + 1, Len(x.m))) + x.m[f])

\* Math.max of a non-empty list of the results of Math.round
RECURSIVE MathMax(_)
MathMax(xs) ==
    IF Len(xs) = 1 THEN xs[1]
    ELSE LET rest == MathMax(Tail(xs))
         IN  IF xs[1].nan \/ rest.nan THEN NaN
             ELSE IF xs[1].n > rest.n THEN xs[1] ELSE rest

\* attempts.reduce((sum, a) => sum + a.<field>, 0)
RECURSIVE SumScore(_)
SumScore(atts) ==
    IF atts = <<>> THEN 0 ELSE atts[1].score + SumScore(Tail(atts))

RECURSIVE SumTotal(_)
SumTotal(atts) ==
    IF atts = <<>> THEN 0 ELSE atts[1].total_questions + SumTotal(Tail(atts))

calculateStats(atts) ==
    IF Len(atts) = 0 THEN [total |-> 0, avgScore |-> Integer(0), bestScore |-> Integer(0)]
    ELSE LET totalQuizzes == Len(atts)
             totalScore == SumScore(atts)
             totalQuestions == SumTotal(atts)
             avgScore == MathRound(DoubleTimes(DoubleDivide(totalScore, totalQuestions), 100))
             bestScore == MathMax([k \in 1..Len(atts) |->
                 MathRound(DoubleTimes(
                     DoubleDivide(atts[k].score, atts[k].total_questions), 100))])
         IN  [total |-> totalQuizzes, avgScore |-> avgScore, bestScore |-> bestScore]

----------------------------------------------------------------------------
(***************************************************************************)
(* Performance page.                                                       *)
(***************************************************************************)
\* checkAuthAndFetch, then fetchAttempts
checkAuthAndFetch(storeError) ==
    /\ page = "performance"
    /\ perfPc = "mount"
    /\ IF auth = NoUser
       THEN Navigate("auth", NoState)
       ELSE IF storeError
       THEN /\ perfPc' = "error"
            /\ UNCHANGED <<page, dash, attempts, stats, resultsState>>
       ELSE /\ attempts' = SelectAttempts(auth, quiz_attempts)
            /\ stats' = calculateStats(attempts')
            /\ perfPc' = "ready"
            /\ UNCHANGED <<page, dash, resultsState>>
    /\ toast' = ""
    /\ UNCHANGED <<auth, locState, quiz, runs, store, sessions>>

\* Retry: window.location.reload()
PerformanceReload ==
    /\ page = "performance"
    /\ perfPc = "error"
    /\ Navigate("performance", NoState)
    /\ toast' = ""
    /\ UNCHANGED <<auth, locState, quiz, runs, store, sessions>>

\* the Clear History button is rendered when attempts.length > 0
clearHistory(storeError) ==
    /\ page = "performance"
    /\ perfPc = "ready"
    /\ Len(attempts) > 0
    /\ IF auth = NoUser
       THEN /\ toast' = MsgNotLoggedIn
            /\ UNCHANGED <<store, attempts, stats>>
       ELSE IF storeError
       THEN /\ toast' = MsgClearFail
            /\ UNCHANGED <<store, attempts, stats>>
       ELSE /\ quiz_attempts' = DeleteAttempts(auth, quiz_attempts, auth)
            /\ quiz_questions' = CascadeQuestions(quiz_questions, quiz_attempts')
            /\ toast' = MsgCleared
            /\ attempts' = <<>>
            /\ stats' = calculateStats(attempts')
            /\ UNCHANGED nextId
    /\ UNCHANGED <<auth, page, dash, locState, quiz, runs, resultsState, perfPc,
                   sessions>>

----------------------------------------------------------------------------
Next ==
    \/ \E u \in Users : SignIn(u)
    \/ SessionLost
    \/ DashboardEffect
    \/ NavHome
    \/ NavPerformance
    \/ \E e \in BOOLEAN : handleLogout(e)
    \/ \E level \in skillLevels : setSelectedSkill(level)
    \/ \E subject \in subjects : handleSubjectToggle(subject)
    \/ \E count \in questionCounts : setSelectedCount(count)
    \/ handleStartQuiz
    \/ OpenQuizDirect
    \/ QuizEffect
    \/ \E k \in BOOLEAN, resp \in OracleResponses : InvokeReturns(k, resp)
    \/ GetSessionReturns
    \/ \E e \in BOOLEAN : InsertAttemptReturns(e)
    \/ HistoryBack
    \/ \E value \in Labels : handleAnswer(value)
    \/ handleNext
    \/ handlePrevious
    \/ handleSubmit
    \/ \E r \in 1..MaxRuns, e \in BOOLEAN : SubmitInsert(r, e)
    \/ \E r \in 1..MaxRuns, e \in BOOLEAN : SubmitUpdate(r, e)
    \/ \E e \in BOOLEAN : checkAuthAndFetch(e)
    \/ PerformanceReload
    \/ \E e \in BOOLEAN : clearHistory(e)

Spec == Init /\ [][Next]_vars

----------------------------------------------------------------------------
(***************************************************************************)
(* A session up to the point where its questions are shown, with every     *)
(* awaited call (the edge function, getSession, the attempt insert)        *)
(* returning in the end and the effect of a mounted page running.          *)
(***************************************************************************)
LoadNext ==
    \/ \E u \in Users : SignIn(u)
    \/ SessionLost
    \/ DashboardEffect
    \/ NavHome
    \/ \E level \in skillLevels : setSelectedSkill(level)
    \/ \E subject \in subjects : handleSubjectToggle(subject)
    \/ \E count \in questionCounts : setSelectedCount(count)
    \/ handleStartQuiz
    \/ OpenQuizDirect
    \/ QuizEffect
    \/ \E k \in BOOLEAN, resp \in OracleResponses : InvokeReturns(k, resp)
    \/ GetSessionReturns
    \/ \E e \in BOOLEAN : InsertAttemptReturns(e)
    \/ HistoryBack
    \/ \E value \in Labels : handleAnswer(value)
    \/ handleNext
    \/ handlePrevious

CallsReturn ==
    /\ WF_vars(QuizEffect)
    /\ WF_vars(\E k \in BOOLEAN, resp \in OracleResponses : InvokeReturns(k, resp))
    /\ WF_vars(GetSessionReturns)
    /\ WF_vars(\E e \in BOOLEAN : InsertAttemptReturns(e))

LoadSpec == Init /\ [][LoadNext]_vars /\ CallsReturn

----------------------------------------------------------------------------
(***************************************************************************)
(* calculateStats on its own: the Performance page holding any list of     *)
(* attempts a user can own (0 <= score <= total_questions) and rendering   *)
(* its statistics.                                                         *)
(***************************************************************************)
StatTotals == {0, 10, 20}

StatAttempts ==
    UNION {{[id |-> 1, user_id |-> "u1", score |-> s, total_questions |-> t] :
               s \in 0..t} : t \in StatTotals}

StatsInit ==
    /\ auth = "u1"
    /\ page = "performance"
    /\ selectedSkill = ""
    /\ selectedSubjects = <<>>
    /\ selectedCount = 0
    /\ locState = NoParams
    /\ questions = <<>>
    /\ loading = TRUE
    /\ currentQuestion = 0
    /\ answers = NoAnswers
    /\ attemptId = NoAttempt
    /\ genPc = "idle"
    /\ genUser = NoUser
    /\ runs = <<>>
    /\ resultsState = NoState
    /\ toast = ""
    /\ quiz_attempts = <<>>
    /\ quiz_questions = <<>>
    /\ nextId = 1
    /\ attempts \in UNION {[1..n -> StatAttempts] : n \in 0..MaxAttempts}
    /\ perfPc = "fetched"
    /\ stats = NoStats
    /\ sessions = 0

\* const stats = calculateStats(), when the page renders what it fetched
PerformanceRender ==
    /\ perfPc = "fetched"
    /\ stats' = calculateStats(attempts)
    /\ perfPc' = "ready"
    /\ toast' = ""
    /\ UNCHANGED <<auth, page, dash, locState, quiz, runs, resultsState, store,
                   attempts, sessions>>

StatsNext == PerformanceRender

StatsSpec == StatsInit /\ [][StatsNext]_vars

----------------------------------------------------------------------------
(***************************************************************************)
(* The session states of the specification, read off the Quiz page.        *)
(***************************************************************************)
Submitting ==
    \E r \in 1..Len(runs) : runs[r].sess = sessions /\ runs[r].pc = "loop"

SessionState ==
    IF page = "quiz"
    THEN IF genPc = "mount" THEN "Initializing"
         ELSE IF GenAwaiting THEN "Loading"
         ELSE IF Len(questions) = 0 THEN "Blank"
         ELSE IF Submitting THEN "Submitting"
         ELSE "InProgress"
    ELSE IF page = "results" THEN "Complete"
    ELSE IF genPc = "failed" THEN "Failed"
    ELSE "None"

AttemptsWithId(id) == {k \in 1..Len(quiz_attempts) : quiz_attempts[k].id = id}

QuestionsOf(id) == SelectSeq(quiz_questions, LAMBDA q : q.attempt_id = id)

\* the indices a run has gone through whose recorded answer is the correct one
CorrectSoFar(run) ==
    {j \in 0..(run.i - 1) :
        j \in DOMAIN run.answers /\ run.answers[j] = run.questions[j + 1].correct_answer}

----------------------------------------------------------------------------
(***************************************************************************)
(* Claims.                                                                 *)
(***************************************************************************)

\* C1: a quiz that is shown for answering (InProgress or Submitting) has
\* exactly one QuizAttempt record, created with total_questions equal to the
\* number of questions returned.
C1_AttemptForEveryQuiz ==
    SessionState \in {"InProgress", "Submitting"} =>
        /\ Cardinality(AttemptsWithId(attemptId)) = 1
        /\ \A k \in AttemptsWithId(attemptId) :
              quiz_attempts[k].total_questions = Len(questions)

\* C2: when the generation call fails (the edge function answers 429, 402 or
\* 500), the step that receives the answer shows an error, leaves for the
\* dashboard with the session failed, and creates no attempt.
C2_GenerationFailureFails ==
    [][genPc = "invoke" =>
          \A k \in BOOLEAN, resp \in OracleResponses :
              (serve(k, resp).status # 200 /\ InvokeReturns(k, resp)) =>
                  /\ genPc' = "failed"
                  /\ page' = "dashboard"
                  /\ toast' # ""
                  /\ quiz_attempts' = quiz_attempts]_vars

C2_Witness ==
    genPc = "failed" /\ page = "dashboard" /\ toast = MsgNon2xx

\* C3: the score a submission has tallied over the questions it has gone
\* through is the number of those whose recorded answer equals the correct
\* answer; an unanswered question is never counted.
C3_ScoreCountsCorrectAnswers ==
    \A r \in 1..Len(runs) :
        runs[r].pc = "loop" => runs[r].score = Cardinality(CorrectSoFar(runs[r]))

C3_Witness ==
    \E r \in 1..Len(runs) :
        /\ runs[r].pc = "loop"
        /\ runs[r].i = MaxQuestions
        /\ runs[r].score = 1
        /\ DOMAIN runs[r].answers # 0..(MaxQuestions - 1)

\* C4: every persisted QuizAttempt has 0 <= score <= total_questions.
C4_ScoreWithinTotal ==
    \A k \in 1..Len(quiz_attempts) :
        /\ 0 <= quiz_attempts[k].score
        /\ quiz_attempts[k].score <= quiz_attempts[k].total_questions

C4_Witness ==
    \E r \in 1..Len(runs) :
        /\ runs[r].pc = "done"
        /\ runs[r].total = MaxQuestions
        /\ AttemptsWithId(runs[r].attemptId) # {}
        /\ Len(quiz_attempts) > 1

\* C5: when a session is Complete, the store holds exactly total_questions
\* QuizQuestion records of its attempt.
C5_OneRecordPerQuestion ==
    SessionState = "Complete" =>
        Len(QuestionsOf(resultsState.attemptId)) = resultsState.total

\* C6: handleSubmit runs at most once for an attempt, so no attempt gets a
\* second batch of question inserts or a second score update.
C6_SubmittedOnce ==
    \A r1, r2 \in 1..Len(runs) :
        (runs[r1].attemptId # NoAttempt /\ runs[r1].attemptId = runs[r2].attemptId)
            => r1 = r2

\* C7: a submission issues the insert of question k-1 as its k-th store
\* operation, and the score update only after the insert of every question.
C7_InsertsInOrderThenUpdate ==
    \A r \in 1..Len(runs) : \A k \in 1..Len(runs[r].issued) :
        LET o == runs[r].issued[k] IN
        /\ o.op = "insert" => o.index = k - 1 /\ k <= runs[r].total
        /\ o.op = "update" => k = runs[r].total + 1

C7_Witness ==
    \E r \in 1..Len(runs) :
        /\ Len(runs[r].issued) = MaxQuestions + 1
        /\ runs[r].issued[MaxQuestions + 1].op = "update"

\* C8: a submission in which a store operation failed does not end with the
\* navigation to the results (Complete).
C8_NoCompleteAfterStoreFailure ==
    \A r \in 1..Len(runs) : runs[r].pc = "done" => ~runs[r].sawError

\* C9: once the score update of a submission has failed, the failure is
\* shown and the user is back on the dashboard, not on the quiz.
C9_FailureLeavesQuiz ==
    (/\ toast = MsgSaveScore
     /\ \A r \in 1..Len(runs) : runs[r].attemptId # NoAttempt)
        => page = "dashboard"

\* C10: right after clearHistory reported success, the owner lists no attempt
\* and no question of any attempt id.
C10_ClearedHistoryIsEmpty ==
    toast = MsgCleared =>
        /\ SelectAttempts(auth, quiz_attempts) = <<>>
        /\ \A id \in 1..(nextId - 1) :
              SelectQuestions(auth, quiz_questions, quiz_attempts, id) = <<>>

\* round(100 * num / den) of the specification, in exact arithmetic (a tie
\* going up), for den > 0
RoundPercent(num, den) == (2 * 100 * num + den) \div (2 * den)

\* summarize of the specification
summarize(atts) ==
    IF atts = <<>>
    THEN [count |-> 0, averagePercentage |-> 0, bestPercentage |-> 0]
    ELSE [count |-> Len(atts),
          averagePercentage |-> RoundPercent(SumScore(atts), SumTotal(atts)),
          bestPercentage |-> Maximum({RoundPercent(atts[k].score,
                                                   atts[k].total_questions) :
                                         k \in 1..Len(atts)})]

\* C11: the statistics the Performance page shows for a list of attempts
\* (each with total_questions > 0) are summarize of that list: the count, the
\* weighted average round(100 * sum(score) / sum(total_questions)) and the
\* best round(100 * score / total_questions); all 0 for the empty list.
C11_StatsAreSummarize ==
    (/\ perfPc = "ready"
     /\ \A k \in 1..Len(attempts) : attempts[k].total_questions > 0)
        => /\ stats.total = summarize(attempts).count
           /\ ~stats.avgScore.nan
           /\ stats.avgScore.n = summarize(attempts).averagePercentage
           /\ ~stats.bestScore.nan
           /\ stats.bestScore.n = summarize(attempts).bestPercentage

\* C12: the questions a successful generation delivers to the session for
\* answering are exactly as many as were asked for (questionCount).
C12_DeliveredAsRequested ==
    SessionState \in {"InProgress", "Submitting"} =>
        Len(questions) = locState.questionCount

\* the error outcome the specification names for an oracle outcome
Outcome(keyConfigured, resp) ==
    IF ~keyConfigured THEN "ConfigurationError"
    ELSE IF resp.status = 429 THEN "RateLimited"
    ELSE IF resp.status = 402 THEN "PaymentRequired"
    ELSE IF resp.status # 200 \/ resp.kind = Unparseable THEN "UpstreamError"
    ELSE "Success"

\* C13: what the caller shows when the generation fails tells the error
\* outcomes apart: the message shown for one outcome (ConfigurationError,
\* RateLimited, PaymentRequired, UpstreamError) is not the message any other
\* outcome gives.
C13_CallerTellsErrorsApart ==
    [][genPc = "invoke" =>
          \A k1 \in BOOLEAN, r1 \in OracleResponses :
              (Outcome(k1, r1) # "Success" /\ InvokeReturns(k1, r1)) =>
                  \A k2 \in BOOLEAN, r2 \in OracleResponses :
                      Outcome(k2, r2) \notin {"Success", Outcome(k1, r1)} =>
                          invoke(serve(k2, r2)).error # toast']_vars

\* C14: while the quiz is InProgress the cursor is within 0..total-1; Next on
\* the last index and Previous on index 0 leave it where it is, and anywhere
\* else they move it by exactly one.
C14_CursorWithinBounds ==
    SessionState = "InProgress" =>
        LET last == Len(questions) - 1
            next == NextCursor(currentQuestion, Len(questions))
            prev == PreviousCursor(currentQuestion)
        IN  /\ 0 <= currentQuestion /\ currentQuestion <= last
            /\ next = IF currentQuestion = last THEN last ELSE currentQuestion + 1
            /\ prev = IF currentQuestion = 0 THEN 0 ELSE currentQuestion - 1

C14_Witness ==
    /\ SessionState = "InProgress"
    /\ Len(questions) = MaxQuestions
    /\ currentQuestion = MaxQuestions - 1
    /\ DOMAIN answers = {MaxQuestions - 1}

\* C15: recording an answer sets the answer of the current index to the
\* chosen label, replacing an earlier one, and leaves the answers of all
\* other indices, the cursor and the questions as they were.
C15_AnswerFrame ==
    [][\A value \in Labels :
          handleAnswer(value) =>
              /\ DOMAIN answers' = DOMAIN answers \cup {currentQuestion}
              /\ answers'[currentQuestion] = value
              /\ \A j \in DOMAIN answers \ {currentQuestion} : answers'[j] = answers[j]
              /\ currentQuestion' = currentQuestion
              /\ questions' = questions]_vars

C15_Witness ==
    /\ SessionState = "InProgress"
    /\ DOMAIN answers = 0..(MaxQuestions - 1)
    /\ currentQuestion = 0
    /\ answers[0] # answers[MaxQuestions - 1]

\* C16: an attempt no submission has been started for (its quiz still being
\* answered, or abandoned) has no QuizQuestion row and score 0; answering
\* and moving the cursor leave the store as it is.
C16_NothingStoredBeforeSubmit ==
    /\ [](\A k \in 1..Len(quiz_attempts) :
            (\A r \in 1..Len(runs) : runs[r].attemptId # quiz_attempts[k].id) =>
                /\ QuestionsOf(quiz_attempts[k].id) = <<>>
                /\ quiz_attempts[k].score = 0)
    /\ [][((\E value \in Labels : handleAnswer(value)) \/ handleNext \/ handlePrevious)
            => UNCHANGED store]_vars

C16_Witness ==
    /\ SessionState = "InProgress"
    /\ attemptId # NoAttempt
    /\ runs = <<>>
    /\ DOMAIN answers = 0..(MaxQuestions - 1)

\* C17: the session enters Submitting only from InProgress with the cursor
\* on the last question.
C17_SubmitOnLastQuestion ==
    [][(SessionState # "Submitting" /\ SessionState' = "Submitting") =>
          /\ SessionState = "InProgress"
          /\ currentQuestion = Len(questions) - 1]_vars

C17_Witness ==
    /\ SessionState = "Submitting"
    /\ Len(questions) = MaxQuestions
    /\ currentQuestion = MaxQuestions - 1

\* the transitions of section 4.2
SessionTransitions ==
    {<<"Initializing", "Loading">>, <<"Loading", "InProgress">>,
     <<"InProgress", "Submitting">>, <<"Submitting", "Complete">>,
     <<"Loading", "Failed">>, <<"Submitting", "Failed">>}

\* C18: the state of a session changes only along Initializing -> Loading ->
\* InProgress -> Submitting -> Complete, or from Loading or Submitting to
\* Failed (a session the user leaves, or one that shows nothing, is not
\* followed further).
C18_SessionLifecycle ==
    [][(/\ sessions' = sessions
        /\ SessionState # SessionState'
        /\ SessionState \notin {"None", "Blank"}
        /\ SessionState' \notin {"None", "Blank"})
          => <<SessionState, SessionState'>> \in SessionTransitions]_vars

\* C19: a session mounted without skill level, subjects or question count
\* leaves for the dashboard without invoking the generator or creating an
\* attempt; the generator is only ever awaited for a skill level, a
\* non-empty subject list and a count > 0.
C19_ParamsValidated ==
    /\ [](GenAwaiting =>
            /\ locState.skillLevel \in skillLevels
            /\ Len(locState.subjects) > 0
            /\ locState.questionCount > 0)
    /\ [][(ParamsMissing(locState) /\ QuizEffect) =>
            /\ page' = "dashboard"
            /\ genPc' = "idle"
            /\ UNCHANGED store]_vars

C19_Witness ==
    /\ page = "dashboard"
    /\ sessions = 1
    /\ locState = NoParams
    /\ genPc = "idle"
    /\ quiz_attempts = <<>>

\* C20: when a session is Complete, the score and total handed to the
\* results page are the score and total_questions stored on its attempt.
C20_HandedOffIsPersisted ==
    SessionState = "Complete" =>
        /\ AttemptsWithId(resultsState.attemptId) # {}
        /\ \A k \in AttemptsWithId(resultsState.attemptId) :
              /\ quiz_attempts[k].score = resultsState.score
              /\ quiz_attempts[k].total_questions = resultsState.total

\* the attempts a user owns, and the questions of those attempts
OwnedAttempts(u, atts) == SelectSeq(atts, LAMBDA a : a.user_id = u)

OwnedQuestions(u, qs, atts) ==
    SelectSeq(qs, LAMBDA q : OwnsAttempt(u, q.attempt_id, atts))

\* C21: list-attempts and list-questions return to a caller only records the
\* caller owns, and no step taken while one user (or nobody) is signed in
\* creates, changes or deletes an attempt or a question of another user.
C21_UsersIsolated ==
    /\ [](\A u \in Users \cup {NoUser} :
            /\ \A k \in 1..Len(SelectAttempts(u, quiz_attempts)) :
                  SelectAttempts(u, quiz_attempts)[k].user_id = u
            /\ \A id \in 1..(nextId - 1) :
                  LET rows == SelectQuestions(u, quiz_questions, quiz_attempts, id)
                  IN  \A k \in 1..Len(rows) :
                          OwnsAttempt(u, rows[k].attempt_id, quiz_attempts))
    /\ [][\A v \in Users :
            v # auth =>
                /\ OwnedAttempts(v, quiz_attempts') = OwnedAttempts(v, quiz_attempts)
                /\ OwnedQuestions(v, quiz_questions', quiz_attempts') =
                      OwnedQuestions(v, quiz_questions, quiz_attempts)]_vars

\* a submission started by one user goes on while another user is signed
\* in, and both own an attempt
C21_Witness ==
    /\ auth \in Users
    /\ \E r \in 1..Len(runs) :
          /\ runs[r].i > 0
          /\ \E k \in AttemptsWithId(runs[r].attemptId) :
                quiz_attempts[k].user_id # auth
    /\ OwnedAttempts(auth, quiz_attempts) # <<>>

\* C23: at most one submission of an attempt is in flight: no two runs of
\* handleSubmit for the same attempt are awaiting their store calls at the
\* same time.
C23_OneSubmissionInFlight ==
    \A r1, r2 \in 1..Len(runs) :
        (/\ runs[r1].pc = "loop"
         /\ runs[r2].pc = "loop"
         /\ runs[r1].attemptId # NoAttempt
         /\ runs[r1].attemptId = runs[r2].attemptId) => r1 = r2

\* C24: the statistics the Performance page shows for the attempts it
\* listed are defined integers with 0 <= average <= best <= 100.
C24_StatsDefined ==
    (page = "performance" /\ perfPc = "ready") =>
        /\ ~stats.avgScore.nan
        /\ ~stats.bestScore.nan
        /\ 0 <= stats.avgScore.n
        /\ stats.avgScore.n <= stats.bestScore.n
        /\ stats.bestScore.n <= 100

\* C22: with every awaited call returning, a session that is Loading goes
\* on to InProgress or to Failed, whatever the edge function answers.
C22_LoadingEnds ==
    (SessionState = "Loading") ~> (SessionState \in {"InProgress", "Failed"})

=============================================================================
